---- MODULE Spec2Model ----
(***************************************************************************)
(* A model of the personal wiki of src/code.py: the user registry, the     *)
(* space store (one directory of pages per identity), the image store,     *)
(* the session identity of each client, and the request handlers.          *)
(*                                                                         *)
(* Strings are sequences of tokens.  A token is one significant character  *)
(* (" ", tab, CR, LF, "/", "\", ".") or a run of ordinary characters       *)
(* ("Postman", "alice", "Foo", ".html", ...), so that strip(), the path    *)
(* resolution of os.path.join and the newline translation of text-mode     *)
(* files are computed as Python and a POSIX file system compute them.      *)
(***************************************************************************)
EXTENDS Integers, Sequences, FiniteSets, TLC

VARIABLES users_list, users_file, dirs, files, images, session, last, inflight

vars == <<users_list, users_file, dirs, files, images, session, last, inflight>>

-----------------------------------------------------------------------------
(* Values *)

\* Python's None: a value different from every string.
None == <<"<None>">>

SUPER_USER == <<"Postman">>
BASE_DATA_DIR == <<"wiki_pages">>
ALLOWED_IMAGE_EXTENSIONS == {<<"png">>, <<"jpg">>, <<"jpeg">>, <<"gif">>}
PLACEHOLDER == <<"<p>Your content here</p>">>

Whitespace == {" ", "\t", "\n", "\r"}

\* The browsers (session cookies) that issue requests.
Clients == {"c1"}

\* Values of the 'username' form field of /login and /admin/users.
UserNameInputs ==
    {<<>>, SUPER_USER, <<"alice">>, <<" ", "alice">>, <<"Postman", "/">>}

\* Values of the 'space' query parameter (None: parameter absent).
SpaceArgs == {None, SUPER_USER, <<"alice">>, <<"Postman", "/">>}

\* <page_name> segments of /page, /edit and /delete URLs: the router's
\* string converter accepts any non-empty segment without "/".
UrlPageNames == {<<"Foo">>, <<"a", " ", "b">>}

\* Values of the 'page_name' form field of /new.
FormPageNames == {<<>>, <<"Foo">>, <<" ", "Foo">>, <<"a", " ", "b">>}

\* Values of the 'content' form field of /edit.
ContentInputs == {<<"a">>}

\* Uploaded file names of /edit (None: no file part).
\* Requests to /admin/users that can be in progress at the same time, and
\* the record of a slot with no request in progress
Slots == {"r1", "r2"}
Idle == [action |-> "idle", at |-> 0, client |-> "none", username |-> None]

ImageInputs == {None, <<"photo", ".", "PNG">>, <<"photo", ".", "exe">>, <<"photo">>}

-----------------------------------------------------------------------------
(* String helpers *)

RECURSIVE lstrip(_)
lstrip(s) ==
    IF s # <<>> /\ Head(s) \in Whitespace THEN lstrip(Tail(s)) ELSE s

RECURSIVE rstrip(_)
rstrip(s) ==
    IF s # <<>> /\ s[Len(s)] \in Whitespace
    THEN rstrip(SubSeq(s, 1, Len(s) - 1)) ELSE s

\* str.strip()
strip(s) == rstrip(lstrip(s))

\* c in s, for a single character c
has_char(s, c) == \E i \in 1..Len(s) : s[i] = c

\* x in list
in_list(x, lst) == \E i \in 1..Len(lst) : lst[i] = x

\* list.remove(x): drops the first occurrence
list_remove(lst, x) ==
    LET i == CHOOSE k \in 1..Len(lst) :
                 lst[k] = x /\ \A j \in 1..(k - 1) : lst[j] # x
    IN  SubSeq(lst, 1, i - 1) \o SubSeq(lst, i + 1, Len(lst))

-----------------------------------------------------------------------------
(* The file system.  A path is a sequence of components, each a string.    *)
(* dirs is the set of directories, files maps each regular file to its     *)
(* stored text.                                                            *)

\* The components of a relative path string: split on "/", empty and "."
\* components name no step, ".." steps up.
RECURSIVE path_walk(_, _, _)
path_walk(s, cur, acc) ==
    LET step(a) == IF cur = <<>> \/ cur = <<".">> THEN a
                   ELSE IF cur = <<"..">>
                        THEN (IF a = <<>> THEN a ELSE SubSeq(a, 1, Len(a) - 1))
                        ELSE Append(a, cur)
    IN  IF s = <<>> THEN step(acc)
        ELSE IF Head(s) = "/" THEN path_walk(Tail(s), <<>>, step(acc))
        ELSE path_walk(Tail(s), Append(cur, Head(s)), acc)

\* os.path.join(base, rel), resolved as the file system resolves it: an
\* absolute rel discards base.
path_join(base, rel) ==
    IF rel # <<>> /\ Head(rel) = "/"
    THEN path_walk(rel, <<>>, <<>>)
    ELSE path_walk(rel, <<>>, base)

is_prefix(p, q) == Len(p) <= Len(q) /\ SubSeq(q, 1, Len(p)) = p

\* os.makedirs(p): p and its missing ancestors
makedirs(ds, p) == ds \cup {SubSeq(p, 1, k) : k \in 1..Len(p)}

user_dir(username) == path_join(<<BASE_DATA_DIR>>, username)

\* ensure_user_space: the directories after the call
ensure_user_space(ds, username) ==
    IF user_dir(username) \in ds THEN ds ELSE makedirs(ds, user_dir(username))

page_path(username, page_name) ==
    path_join(user_dir(username), page_name \o <<".html">>)

\* Text-mode read (newline=None): "\r\n" and "\r" become "\n".
RECURSIVE read_text(_)
read_text(s) ==
    IF s = <<>> THEN <<>>
    ELSE IF Head(s) = "\r"
         THEN IF Len(s) >= 2 /\ s[2] = "\n"
              THEN <<"\n">> \o read_text(Tail(Tail(s)))
              ELSE <<"\n">> \o read_text(Tail(s))
         ELSE <<Head(s)>> \o read_text(Tail(s))

\* Text-mode write on POSIX: os.linesep is "\n", the text is stored as given.
write_text(s) == s

\* os.listdir(d): the names of the files and directories directly in d
listdir(ds, fs, d) ==
    {p[Len(p)] : p \in {q \in ds \cup DOMAIN fs :
                            Len(q) = Len(d) + 1 /\ is_prefix(d, q)}}

\* str.lower() on the characters the model uses, and the order of sorted()
lower_tok(t) == IF t = "Foo" THEN "foo" ELSE IF t = "PNG" THEN "png" ELSE t
lower(s) == [i \in 1..Len(s) |-> lower_tok(s[i])]
TokOrder == <<"\t", " ", ".", ".html", "/", "\\", "a", "b", "foo">>
tok_rank(t) == CHOOSE i \in 1..Len(TokOrder) : TokOrder[i] = t
RECURSIVE str_less(_, _)
str_less(a, b) ==
    IF b = <<>> THEN FALSE
    ELSE IF a = <<>> THEN TRUE
    ELSE IF Head(a) = Head(b) THEN str_less(Tail(a), Tail(b))
    ELSE tok_rank(Head(a)) < tok_rank(Head(b))

RECURSIVE set_to_seq(_)
set_to_seq(S) ==
    IF S = {} THEN <<>>
    ELSE LET x == CHOOSE y \in S : TRUE IN <<x>> \o set_to_seq(S \ {x})

\* list_pages: the value returned (the directory is created first if missing)
list_pages(ds, fs, user) ==
    LET names == {f \in listdir(ensure_user_space(ds, user), fs, user_dir(user)) :
                      f # <<>> /\ f[Len(f)] = ".html"}
        stems == {SubSeq(f, 1, Len(f) - 1) : f \in names}
    IN  SortSeq(set_to_seq(stems), LAMBDA a, b : str_less(lower(a), lower(b)))

\* load_page: the value returned
load_page(fs, username, page_name) ==
    IF page_path(username, page_name) \in DOMAIN fs
    THEN read_text(fs[page_path(username, page_name)])
    ELSE None

\* A save_page that writes nothing
save_page_nothing(fs, username, page_name, content) == fs

\* save_page: the files after the call
save_page(fs, username, page_name, content) ==
    LET path == page_path(username, page_name)
    IN  [p \in DOMAIN fs \cup {path} |->
            IF p = path THEN write_text(content) ELSE fs[p]]

\* delete_page reporting success whether or not the page exists
delete_page_ret_always(fs, username, page_name) == TRUE

\* delete_page: the value returned, and the files after the call
delete_page_ret(fs, username, page_name) ==
    page_path(username, page_name) \in DOMAIN fs

delete_page(fs, username, page_name) ==
    IF page_path(username, page_name) \in DOMAIN fs
    THEN [p \in DOMAIN fs \ {page_path(username, page_name)} |-> fs[p]]
    ELSE fs

\* A removal that leaves the files in place
rmtree_files_kept(fs, p) == fs

\* shutil.rmtree(p)
rmtree_dirs(ds, p) == {d \in ds : ~is_prefix(p, d)}
rmtree_files(fs, p) == [q \in {r \in DOMAIN fs : ~is_prefix(p, r)} |-> fs[q]]

-----------------------------------------------------------------------------
(* Access control and space resolution *)

\* "not x" for a string or None
falsy(x) == x = None \/ x = <<>>

\* user_can_edit without the owner comparison
user_can_edit_any_space(username, page_user) ==
    IF falsy(username) THEN FALSE ELSE TRUE

\* The user_can_edit the handlers call: the module-level name is bound last
\* by the definition decorated with app.template_global().
user_can_edit(username, page_user) ==
    IF falsy(username) THEN FALSE
    ELSE IF username = SUPER_USER THEN TRUE
    ELSE username = page_user

\* resolve_space taking the 'space' parameter of a regular user at its word
resolve_space_param_trusted(current_user, space, users) ==
    IF current_user = SUPER_USER
    THEN IF ~in_list(space, <<SUPER_USER>> \o users) THEN SUPER_USER ELSE space
    ELSE IF falsy(current_user) THEN SUPER_USER
    ELSE IF space # None THEN space ELSE current_user

\* resolve_space without the check of the super user's 'space' parameter
resolve_space_unvalidated(current_user, space, users) ==
    IF current_user = SUPER_USER
    THEN IF space = None THEN SUPER_USER ELSE space
    ELSE IF falsy(current_user) THEN SUPER_USER ELSE current_user

\* The space a handler works on, as index, view_page, edit_page, new_page
\* and delete_page_route each compute it from the session identity and the
\* 'space' parameter.
resolve_space(current_user, space, users) ==
    IF current_user = SUPER_USER
    THEN IF ~in_list(space, <<SUPER_USER>> \o users) THEN SUPER_USER ELSE space
    ELSE IF falsy(current_user) THEN SUPER_USER ELSE current_user

\* current_space of the context processor, which runs for every rendered page
inject_current_space(current_user, space, users) ==
    IF current_user = SUPER_USER
    THEN LET cs == IF space = None THEN SUPER_USER ELSE space
         IN  IF cs # SUPER_USER /\ ~in_list(cs, users) THEN SUPER_USER ELSE cs
    ELSE IF ~falsy(current_user) THEN current_user
    ELSE SUPER_USER

\* Rendering a template lists the pages of current_space, which creates the
\* directory of that space if it is missing: the directories after a render.
render(ds, current_user, space, users) ==
    ensure_user_space(ds, inject_current_space(current_user, space, users))

\* login_required lets the request through
logged_in(c) == session[c] # None

\* manage_users open to every logged-in user
is_admin_any_user(current_user) == TRUE

\* manage_users is for the super user only
is_admin(current_user) == current_user = SUPER_USER

\* What the last request was and how it ended: the handler, the client, the
\* 'space' parameter, the space the handler worked on (for /admin/users the
\* username it worked on) and the outcome.  A successful removal also records
\* how many pages the removed user's space listed (wiped).
Response(op, c, arg, space, status) ==
    [op |-> op, client |-> c, arg |-> arg, space |-> space, status |-> status]

-----------------------------------------------------------------------------
(* The state after the module is loaded with no users.json: load_users    *)
(* writes an empty registry, the data directory and the super user's      *)
(* space are created.                                                      *)

Init ==
    /\ users_list = <<>>
    /\ users_file = <<>>
    /\ dirs = {<<BASE_DATA_DIR>>, user_dir(SUPER_USER)}
    /\ files = [p \in {} |-> <<>>]
    /\ images = {}
    /\ session = [c \in Clients |-> None]
    /\ last = Response("start", "c1", None, None, "none")
    /\ inflight = [r \in Slots |-> Idle]

-----------------------------------------------------------------------------
(* Request handlers *)

\* GET /
index(c, space) ==
    /\ UNCHANGED inflight
    /\ LET current_user == session[c]
           sp == resolve_space(current_user, space, users_list)
       IN  /\ dirs' = render(ensure_user_space(dirs, sp), current_user, space, users_list)
           /\ last' = Response("index", c, space, sp, "200")
           /\ UNCHANGED <<users_list, users_file, files, images, session>>

\* GET /page/<page_name>
view_page(c, page_name, space) ==
    /\ UNCHANGED inflight
    /\ LET current_user == session[c]
           sp == resolve_space(current_user, space, users_list)
           content == load_page(files, sp, page_name)
       IN  /\ IF content = None
              THEN /\ dirs' = ensure_user_space(dirs, sp)
                   /\ last' = Response("view_page", c, space, sp, "404")
              ELSE /\ dirs' = render(ensure_user_space(dirs, sp), current_user, space, users_list)
                   /\ last' = Response("view_page", c, space, sp, "200")
           /\ UNCHANGED <<users_list, users_file, files, images, session>>

\* An allowed_image that compares the extension as written
allowed_image_case_sensitive(filename) ==
    /\ has_char(filename, ".")
    /\ LET i == CHOOSE k \in 1..Len(filename) :
                    filename[k] = "." /\ \A j \in (k + 1)..Len(filename) : filename[j] # "."
       IN  SubSeq(filename, i + 1, Len(filename)) \in ALLOWED_IMAGE_EXTENSIONS

\* allowed_image
allowed_image(filename) ==
    /\ has_char(filename, ".")
    /\ LET i == CHOOSE k \in 1..Len(filename) :
                    filename[k] = "." /\ \A j \in (k + 1)..Len(filename) : filename[j] # "."
       IN  lower(SubSeq(filename, i + 1, Len(filename))) \in ALLOWED_IMAGE_EXTENSIONS

\* werkzeug's secure_filename: path separators become spaces, runs of
\* whitespace become one "_", characters outside [A-Za-z0-9_.-] are dropped,
\* leading and trailing "." and "_" are stripped.
RECURSIVE join_words(_, _)
join_words(s, pending) ==
    IF s = <<>> THEN <<>>
    ELSE IF Head(s) \in Whitespace \cup {"/"} THEN join_words(Tail(s), TRUE)
    ELSE IF Head(s) = "\\" THEN join_words(Tail(s), pending)
    ELSE (IF pending THEN <<"_">> ELSE <<>>) \o <<Head(s)>> \o join_words(Tail(s), FALSE)

RECURSIVE strip_dots(_)
strip_dots(s) ==
    IF s # <<>> /\ Head(s) \in {".", "_"} THEN strip_dots(Tail(s))
    ELSE IF s # <<>> /\ s[Len(s)] \in {".", "_"} THEN strip_dots(SubSeq(s, 1, Len(s) - 1))
    ELSE s

secure_filename(filename) == strip_dots(join_words(lstrip(filename), FALSE))

\* The page_name check of new_page: the name is refused
bad_page_name(page_name) ==
    page_name = <<>> \/ has_char(page_name, " ") \/ has_char(page_name, "/")
        \/ has_char(page_name, "\\")

\* /edit/<page_name>, GET or POST
edit_page(c, method, page_name, space, content, img) ==
    /\ UNCHANGED inflight
    /\ LET current_user == session[c]
           sp == resolve_space(current_user, space, users_list)
           upload == img # None /\ img # <<>> /\ allowed_image(img)
           refused == img # None /\ img # <<>> /\ ~allowed_image(img)
       IN  IF ~logged_in(c)
           THEN /\ last' = Response("edit_page", c, space, None, "login")
                /\ UNCHANGED <<users_list, users_file, dirs, files, images, session>>
           ELSE IF ~user_can_edit(current_user, sp)
           THEN /\ last' = Response("edit_page", c, space, sp, "forbidden")
                /\ UNCHANGED <<users_list, users_file, dirs, files, images, session>>
           ELSE IF method = "POST"
           THEN /\ files' = save_page(files, sp, page_name, content)
                /\ images' = IF upload THEN images \cup {secure_filename(img)} ELSE images
                /\ dirs' = IF upload \/ refused
                           THEN render(ensure_user_space(dirs, sp), current_user, space, users_list)
                           ELSE ensure_user_space(dirs, sp)
                /\ last' = [op |-> "edit_page", client |-> c, arg |-> space, space |-> sp,
                            status |-> IF upload THEN "uploaded"
                                       ELSE IF refused THEN "bad_image" ELSE "saved",
                            image |-> img]
                /\ UNCHANGED <<users_list, users_file, session>>
           ELSE /\ dirs' = render(ensure_user_space(dirs, sp), current_user, space, users_list)
                /\ last' = Response("edit_page", c, space, sp, "form")
                /\ UNCHANGED <<users_list, users_file, files, images, session>>

\* /new, GET or POST
new_page(c, method, space, form_page_name) ==
    /\ UNCHANGED inflight
    /\ LET current_user == session[c]
           sp == resolve_space(current_user, space, users_list)
           page_name == strip(form_page_name)
       IN  IF ~logged_in(c)
           THEN /\ last' = Response("new_page", c, space, None, "login")
                /\ UNCHANGED <<users_list, users_file, dirs, files, images, session>>
           ELSE IF ~user_can_edit(current_user, sp)
           THEN /\ last' = Response("new_page", c, space, sp, "forbidden")
                /\ UNCHANGED <<users_list, users_file, dirs, files, images, session>>
           ELSE IF method = "POST" /\ bad_page_name(page_name)
           THEN /\ dirs' = render(dirs, current_user, space, users_list)
                /\ last' = [op |-> "new_page", client |-> c, arg |-> space, space |-> sp,
                            status |-> "bad_name", page |-> page_name]
                /\ UNCHANGED <<users_list, users_file, files, images, session>>
           ELSE IF method = "POST" /\ in_list(page_name, list_pages(dirs, files, sp))
           THEN /\ dirs' = render(ensure_user_space(dirs, sp), current_user, space, users_list)
                /\ last' = [op |-> "new_page", client |-> c, arg |-> space, space |-> sp,
                            status |-> "exists", page |-> page_name]
                /\ UNCHANGED <<users_list, users_file, files, images, session>>
           ELSE IF method = "POST"
           THEN /\ files' = save_page(files, sp, page_name, PLACEHOLDER)
                /\ dirs' = ensure_user_space(dirs, sp)
                /\ last' = [op |-> "new_page", client |-> c, arg |-> space, space |-> sp,
                            status |-> "created", page |-> page_name]
                /\ UNCHANGED <<users_list, users_file, images, session>>
           ELSE /\ dirs' = render(dirs, current_user, space, users_list)
                /\ last' = Response("new_page", c, space, sp, "form")
                /\ UNCHANGED <<users_list, users_file, files, images, session>>

\* POST /delete/<page_name>
delete_page_route(c, page_name, space) ==
    /\ UNCHANGED inflight
    /\ LET current_user == session[c]
           sp == resolve_space(current_user, space, users_list)
       IN  IF ~logged_in(c)
           THEN /\ last' = Response("delete_page_route", c, space, None, "login")
                /\ UNCHANGED <<users_list, users_file, dirs, files, images, session>>
           ELSE IF ~user_can_edit(current_user, sp)
           THEN /\ last' = Response("delete_page_route", c, space, sp, "forbidden")
                /\ UNCHANGED <<users_list, users_file, dirs, files, images, session>>
           ELSE /\ files' = delete_page(files, sp, page_name)
                /\ dirs' = ensure_user_space(dirs, sp)
                /\ last' = Response("delete_page_route", c, space, sp,
                                    IF delete_page_ret(files, sp, page_name)
                                    THEN "deleted" ELSE "not_found")
                /\ UNCHANGED <<users_list, users_file, images, session>>

\* A login check that accepts every non-empty name
login_accepted_any_name(username, users) == username # <<>>

\* The checks of login: the username is accepted
login_accepted(username, users) ==
    username # <<>> /\ (username = SUPER_USER \/ in_list(username, users))

\* /login, GET or POST
login(c, method, form_username, space) ==
    /\ UNCHANGED inflight
    /\ LET username == strip(form_username)
       IN  IF method = "POST" /\ login_accepted(username, users_list)
           THEN /\ session' = [session EXCEPT ![c] = username]
                /\ last' = Response("login", c, space, None, "logged_in")
                /\ UNCHANGED <<users_list, users_file, dirs, files, images>>
           ELSE /\ dirs' = render(dirs, session[c], space, users_list)
                /\ last' = Response("login", c, space, None,
                                    IF method = "POST" THEN "refused" ELSE "form")
                /\ UNCHANGED <<users_list, users_file, files, images, session>>

\* GET /logout
logout(c) ==
    /\ UNCHANGED inflight
    /\ session' = [session EXCEPT ![c] = None]
    /\ last' = Response("logout", c, None, None, "logged_out")
    /\ UNCHANGED <<users_list, users_file, dirs, files, images>>

\* A save_users that truncates users.json and writes nothing
save_users_nothing(users) == <<>>

\* save_users: the contents of users.json after the call
save_users(users) == users

\* The checks of action 'add' without the duplicate check
add_refused_no_duplicate_check(username, users) ==
    username = <<>> \/ username = SUPER_USER

\* The checks of action 'add': the username is refused
add_refused(username, users) ==
    username = <<>> \/ username = SUPER_USER \/ in_list(username, users)

\* /admin/users, GET or POST
manage_users(c, method, action, form_username, space) ==
    /\ UNCHANGED inflight
    /\ LET username == strip(form_username)
           user_space_path == path_join(<<BASE_DATA_DIR>>, username)
       IN  IF ~logged_in(c)
           THEN /\ last' = Response("manage_users", c, space, None, "login")
                /\ UNCHANGED <<users_list, users_file, dirs, files, images, session>>
           ELSE IF ~is_admin(session[c])
           THEN /\ last' = Response("manage_users", c, space, None, "forbidden")
                /\ UNCHANGED <<users_list, users_file, dirs, files, images, session>>
           ELSE IF method = "POST" /\ action = "add" /\ ~add_refused(username, users_list)
           THEN /\ users_list' = Append(users_list, username)
                /\ users_file' = save_users(users_list')
                /\ dirs' = ensure_user_space(dirs, username)
                /\ last' = Response("manage_users", c, space, username, "added")
                /\ UNCHANGED <<files, images, session>>
           ELSE IF method = "POST" /\ action = "remove" /\ in_list(username, users_list)
           THEN /\ dirs' = IF user_space_path \in dirs
                           THEN rmtree_dirs(dirs, user_space_path) ELSE dirs
                /\ files' = IF user_space_path \in dirs
                            THEN rmtree_files(files, user_space_path) ELSE files
                /\ users_list' = list_remove(users_list, username)
                /\ users_file' = save_users(users_list')
                /\ last' = [op |-> "manage_users", client |-> c, arg |-> space,
                            space |-> username, status |-> "removed",
                            wiped |-> Len(list_pages(dirs, files, username))]
                /\ UNCHANGED <<images, session>>
           ELSE /\ dirs' = render(dirs, session[c], space, users_list)
                /\ last' = Response("manage_users", c, space, username,
                                    IF method = "GET" THEN "form"
                                    ELSE IF action = "add" /\ username = <<>> THEN "empty"
                                    ELSE IF action = "add" /\ username = SUPER_USER THEN "reserved"
                                    ELSE IF action = "add" THEN "duplicate"
                                    ELSE "not_found")
                /\ UNCHANGED <<users_list, users_file, files, images, session>>

-----------------------------------------------------------------------------
(* The requests of the clients in C *)

Requests(C) ==
    \/ \E c \in C, space \in SpaceArgs : index(c, space)
    \/ \E c \in C, pn \in UrlPageNames, space \in SpaceArgs : view_page(c, pn, space)
    \/ \E c \in C, pn \in UrlPageNames, space \in SpaceArgs :
           edit_page(c, "GET", pn, space, <<>>, None)
    \/ \E c \in C, pn \in UrlPageNames, space \in SpaceArgs,
          content \in ContentInputs, img \in ImageInputs :
           edit_page(c, "POST", pn, space, content, img)
    \/ \E c \in C, space \in SpaceArgs : new_page(c, "GET", space, <<>>)
    \/ \E c \in C, space \in SpaceArgs, pn \in FormPageNames :
           new_page(c, "POST", space, pn)
    \/ \E c \in C, pn \in UrlPageNames, space \in SpaceArgs :
           delete_page_route(c, pn, space)
    \/ \E c \in C : login(c, "GET", <<>>, None)
    \/ \E c \in C, u \in UserNameInputs : login(c, "POST", u, None)
    \/ \E c \in C : logout(c)
    \/ \E c \in C : manage_users(c, "GET", "none", <<>>, None)
    \/ \E c \in C, a \in {"add", "remove"}, u \in UserNameInputs :
           manage_users(c, "POST", a, u, None)

Next == Requests(Clients)

Spec == Init /\ [][Next]_vars

-----------------------------------------------------------------------------
(* Start-up with any users.json left by an earlier run. The file is either *)
(* missing, a JSON list of names, or something json.load refuses or that   *)
(* is not a list.                                                          *)

NoUsersFile == << <<"<no file>">> >>
NotAList == << <<"<not a JSON list>">> >>

StartUsersFiles == {NoUsersFile, NotAList, <<>>, << <<"alice">> >>}

\* load_users: the list it returns
load_users(file) ==
    IF file = NoUsersFile THEN <<>>
    ELSE IF file = NotAList THEN <<>>
    ELSE file

\* load_users: the contents of users.json after the call
load_users_file(file) ==
    IF file = NoUsersFile THEN <<>> ELSE file

RECURSIVE ensure_all_spaces(_, _)
ensure_all_spaces(ds, users) ==
    IF users = <<>> THEN ds
    ELSE ensure_all_spaces(ensure_user_space(ds, Head(users)), Tail(users))

InitLoad ==
    \E file \in StartUsersFiles :
        /\ users_list = load_users(file)
        /\ users_file = load_users_file(file)
        /\ dirs = ensure_user_space(
                      ensure_all_spaces({<<BASE_DATA_DIR>>}, load_users(file)), SUPER_USER)
        /\ files = [p \in {} |-> <<>>]
        /\ images = {}
        /\ session = [c \in Clients |-> None]
        /\ last = Response("start", "c1", None, None, "none")
    /\ inflight = [r \in Slots |-> Idle]

SpecLoad == InitLoad /\ [][Next]_vars

-----------------------------------------------------------------------------
(* Two browsers, each with its own session cookie. *)

TwoClients == {"c1", "c2"}
SessionNames == {SUPER_USER, <<"alice">>}

InitSessions ==
    /\ users_list = <<>>
    /\ users_file = <<>>
    /\ dirs = {<<BASE_DATA_DIR>>, user_dir(SUPER_USER)}
    /\ files = [p \in {} |-> <<>>]
    /\ images = {}
    /\ session = [c \in TwoClients |-> None]
    /\ last = Response("start", "c1", None, None, "none")
    /\ inflight = [r \in Slots |-> Idle]

NextSessions ==
    \/ \E c \in TwoClients, u \in SessionNames : login(c, "POST", u, None)
    \/ \E c \in TwoClients : logout(c)
    \/ \E c \in TwoClients, a \in {"add", "remove"} :
           manage_users(c, "POST", a, <<"alice">>, None)
    \/ \E c \in TwoClients : index(c, None)
    \/ \E c \in TwoClients : new_page(c, "POST", None, <<"Foo">>)
    \/ \E c \in TwoClients : edit_page(c, "POST", <<"Foo">>, None, <<"a">>, None)
    \/ \E c \in TwoClients : delete_page_route(c, <<"Foo">>, None)

SpecSessions == InitSessions /\ [][NextSessions]_vars

-----------------------------------------------------------------------------
(* POST /admin/users by the super user, statement by statement. A request  *)
(* in progress is held in a slot: its action, the index of its next        *)
(* statement, its client and the stripped username.                        *)

\* A removal that updates the registry before it deletes the space
remove_steps_registry_first == <<"list_remove", "save_users", "rmtree">>

\* The statements of a removal after its membership test, in program order
remove_steps == <<"rmtree", "list_remove", "save_users">>

\* The statements of an addition after its checks, in program order
add_steps == <<"append", "save_users", "ensure_user_space">>

\* The request enters the handler: login and super user checks, then the
\* checks of the chosen action. A refused request is answered at once.
admin_begin(r, c, action, form_username) ==
    LET username == strip(form_username)
        accepted == \/ action = "add" /\ ~add_refused(username, users_list)
                    \/ action = "remove" /\ in_list(username, users_list)
    IN  /\ inflight[r] = Idle
        /\ logged_in(c) /\ is_admin(session[c])
        /\ IF accepted
           THEN /\ inflight' = [inflight EXCEPT ![r] =
                        [action |-> action, at |-> 1, client |-> c, username |-> username]]
                /\ UNCHANGED <<users_list, users_file, dirs, files, images, session, last>>
           ELSE /\ dirs' = render(dirs, session[c], None, users_list)
                /\ last' = Response("manage_users", c, None, username,
                                    IF action = "add" /\ username = <<>> THEN "empty"
                                    ELSE IF action = "add" /\ username = SUPER_USER
                                    THEN "reserved"
                                    ELSE IF action = "add" THEN "duplicate"
                                    ELSE "not_found")
                /\ UNCHANGED <<users_list, users_file, files, images, session, inflight>>

\* The request in slot r executes its next statement. users_list.remove
\* raises ValueError when the name is no longer in the list: the request
\* ends with an error response and executes nothing more.
admin_step(r) ==
    LET req == inflight[r]
        steps == IF req.action = "add" THEN add_steps ELSE remove_steps
        step == steps[req.at]
        username == req.username
        user_space_path == path_join(<<BASE_DATA_DIR>>, username)
        raised == step = "list_remove" /\ ~in_list(username, users_list)
        done == req.at = Len(steps)
    IN  /\ req.action # "idle"
        /\ users_list' = IF step = "append" THEN Append(users_list, username)
                         ELSE IF step = "list_remove" /\ ~raised
                         THEN list_remove(users_list, username)
                         ELSE users_list
        /\ users_file' = IF step = "save_users" THEN save_users(users_list) ELSE users_file
        /\ dirs' = IF step = "rmtree" /\ user_space_path \in dirs
                   THEN rmtree_dirs(dirs, user_space_path)
                   ELSE IF step = "ensure_user_space" THEN ensure_user_space(dirs, username)
                   ELSE dirs
        /\ files' = IF step = "rmtree" /\ user_space_path \in dirs
                    THEN rmtree_files(files, user_space_path)
                    ELSE files
        /\ inflight' = [inflight EXCEPT ![r] =
                            IF raised \/ done THEN Idle ELSE [req EXCEPT !.at = req.at + 1]]
        /\ last' = IF raised
                   THEN Response("manage_users", req.client, None, username, "ValueError")
                   ELSE IF done
                   THEN Response("manage_users", req.client, None, username,
                                 IF req.action = "add" THEN "added" ELSE "removed")
                   ELSE last
        /\ UNCHANGED <<images, session>>

AdminRequests(S, C, names) ==
    \/ \E r \in S, c \in C, a \in {"add", "remove"}, u \in names : admin_begin(r, c, a, u)
    \/ \E r \in S : admin_step(r)

\* Requests are handled one at a time; a request to /admin/users may stop
\* after any of its statements.
Served == IF \A r \in Slots : inflight[r] = Idle THEN Clients ELSE {}

NextStatements ==
    \/ Requests(Served)
    \/ AdminRequests({"r1"}, Clients, UserNameInputs)

SpecStatements == Init /\ [][NextStatements]_vars

\* The threaded server handles requests to /admin/users at the same time:
\* the statements of the requests in progress interleave in any order.
ConcurrentNames == {<<"alice">>, <<"bob">>}

NextConcurrent ==
    \/ \E c \in Clients : login(c, "POST", SUPER_USER, None)
    \/ AdminRequests(Slots, Clients, ConcurrentNames)

SpecConcurrent == Init /\ [][NextConcurrent]_vars

-----------------------------------------------------------------------------
(* The Space Store on its own: list_pages, load_page, save_page and        *)
(* delete_page called with any arguments, from the state after start-up.   *)

MaxContentLen == 2

ContentAlphabet == {"a", "\r", "\n"}

RECURSIVE strings_upto(_)
strings_upto(n) ==
    IF n = 0 THEN {<<>>}
    ELSE LET shorter == strings_upto(n - 1)
         IN  shorter \cup {Append(t, ch) : t \in shorter, ch \in ContentAlphabet}

StoreContents == strings_upto(MaxContentLen)
StoreUsers == {SUPER_USER, <<"alice">>, <<"Postman", "/">>}
StorePageNames == {<<"Foo">>}

Call(op, user, page_name, content, ret) ==
    [op |-> op, space |-> user, page |-> page_name, content |-> content, ret |-> ret]

call_list_pages(user) ==
    /\ UNCHANGED inflight
    /\ dirs' = ensure_user_space(dirs, user)
    /\ last' = Call("list_pages", user, None, None, list_pages(dirs, files, user))
    /\ UNCHANGED <<users_list, users_file, files, images, session>>

call_load_page(user, page_name) ==
    /\ UNCHANGED inflight
    /\ dirs' = ensure_user_space(dirs, user)
    /\ last' = Call("load_page", user, page_name, None, load_page(files, user, page_name))
    /\ UNCHANGED <<users_list, users_file, files, images, session>>

call_save_page(user, page_name, content) ==
    /\ UNCHANGED inflight
    /\ dirs' = ensure_user_space(dirs, user)
    /\ files' = save_page(files, user, page_name, content)
    /\ last' = Call("save_page", user, page_name, content, None)
    /\ UNCHANGED <<users_list, users_file, images, session>>

call_delete_page(user, page_name) ==
    /\ UNCHANGED inflight
    /\ dirs' = ensure_user_space(dirs, user)
    /\ files' = delete_page(files, user, page_name)
    /\ last' = Call("delete_page", user, page_name, None,
                    delete_page_ret(files, user, page_name))
    /\ UNCHANGED <<users_list, users_file, images, session>>

InitStore ==
    /\ users_list = <<>>
    /\ users_file = <<>>
    /\ dirs = {<<BASE_DATA_DIR>>, user_dir(SUPER_USER)}
    /\ files = [p \in {} |-> <<>>]
    /\ images = {}
    /\ session = [c \in Clients |-> None]
    /\ last = Call("start", None, None, None, None)
    /\ inflight = [r \in Slots |-> Idle]

NextStore ==
    \/ \E u \in StoreUsers : call_list_pages(u)
    \/ \E u \in StoreUsers, pn \in StorePageNames : call_load_page(u, pn)
    \/ \E u \in StoreUsers, pn \in StorePageNames, content \in StoreContents :
           call_save_page(u, pn, content)
    \/ \E u \in StoreUsers, pn \in StorePageNames : call_delete_page(u, pn)

SpecStore == InitStore /\ [][NextStore]_vars

-----------------------------------------------------------------------------
(* Properties *)

PageRequests == {"new_page", "edit_page", "delete_page_route"}
ReadRequests == {"index", "view_page"}

\* The identities the requests of the model can name
KnownNames == {strip(u) : u \in UserNameInputs} \ {<<>>}

Registered == {users_list[i] : i \in 1..Len(users_list)}

\* The pages of space s: the files of its directory, with their text
space_files(fs, s) ==
    [p \in {q \in DOMAIN fs : is_prefix(user_dir(s), q)} |-> fs[p]]

\* The page name a stored file stands for
page_name_of(p) == SubSeq(p[Len(p)], 1, Len(p[Len(p)]) - 1)

valid_page_name(n) ==
    n # <<>> /\ \A i \in 1..Len(n) : n[i] \notin Whitespace \cup {"/", "\\"}

\* C1: a /new, /edit or /delete request changes the pages of a space s only
\* if its session identity is the super user or s itself; requests of an
\* anonymous client or of another regular user leave the pages of s as they
\* were.
C1_OnlyOwnerOrSuperChangesSpace ==
    [][\A s \in KnownNames :
          (last'.op \in PageRequests /\ session[last'.client] \notin {SUPER_USER, s})
              => space_files(files', s) = space_files(files, s)]_vars

\* C2: for every actor among anonymous, the super user and the registered
\* users, and every known target space, user_can_edit is false for the
\* anonymous actor, true for the super user, and otherwise true exactly when
\* actor and target are equal; the mutating handlers decide by it.
CanEditExpected(actor, target) ==
    actor # None /\ (actor = SUPER_USER \/ actor = target)

C2_UserCanEdit ==
    /\ \A actor \in {None, SUPER_USER} \cup Registered,
          target \in {SUPER_USER} \cup Registered :
           user_can_edit(actor, target) = CanEditExpected(actor, target)
    /\ last.op \in PageRequests =>
           /\ last.status = "login" <=> session[last.client] = None
           /\ last.status = "forbidden" <=>
                  /\ session[last.client] # None
                  /\ ~CanEditExpected(session[last.client], last.space)

C2_Witness ==
    /\ last.op \in PageRequests
    /\ last.status \in {"saved", "created", "deleted"}
    /\ session[last.client] \in Registered
    /\ last.space = session[last.client]

\* C3: for index and view_page requests of a client that is not the super
\* user, the resolved space is the client's own identity when it is logged
\* in and the super user's space when it is anonymous, whatever the 'space'
\* parameter: any two 'space' parameters resolve to the same space.
C3_ReadSpaceIgnoresParameter ==
    \A c \in Clients :
        session[c] # SUPER_USER =>
            LET own == IF session[c] = None THEN SUPER_USER ELSE session[c]
            IN  /\ \A a1, a2 \in SpaceArgs :
                       /\ resolve_space(session[c], a1, users_list)
                              = resolve_space(session[c], a2, users_list)
                       /\ list_pages(dirs, files, resolve_space(session[c], a1, users_list))
                              = list_pages(dirs, files, resolve_space(session[c], a2, users_list))
                /\ (last.op \in ReadRequests /\ last.client = c) => last.space = own

C3_Witness ==
    /\ last.op = "view_page"
    /\ last.status = "200"
    /\ session[last.client] \in Registered
    /\ last.arg \notin {None, session[last.client]}
    /\ last.space = session[last.client]

\* C4: for the super user the resolved space is the requested space when
\* that is the super user or a username in the registry, and the super
\* user's own space when the parameter is absent or names no known
\* identity; the context processor computes the same space.
SuperSpaceExpected(a) ==
    IF a = SUPER_USER \/ in_list(a, users_list) THEN a ELSE SUPER_USER

C4_SuperUserSpace ==
    /\ \A a \in SpaceArgs :
           /\ resolve_space(SUPER_USER, a, users_list) = SuperSpaceExpected(a)
           /\ inject_current_space(SUPER_USER, a, users_list) = SuperSpaceExpected(a)
    /\ (last.op \in ReadRequests \cup PageRequests /\ session[last.client] = SUPER_USER)
           => last.space = SuperSpaceExpected(last.arg)

C4_Witness ==
    /\ last.op = "index"
    /\ session[last.client] = SUPER_USER
    /\ last.arg \notin {None, SUPER_USER}
    /\ ~in_list(last.arg, users_list)
    /\ users_list # <<>>
    /\ last.space = SUPER_USER

\* C5: an /admin/users request of an anonymous client or of a logged-in
\* regular user leaves the registry in memory, the registry on disk and the
\* space directories and their pages unchanged.
C5_OnlySuperChangesRegistry ==
    [][(last'.op = "manage_users" /\ session[last'.client] # SUPER_USER)
           => UNCHANGED <<users_list, users_file, dirs, files>>]_vars

C5_Witness ==
    /\ last.op = "manage_users"
    /\ last.status = "forbidden"
    /\ session[last.client] \in Registered

\* C6, as claimed: adding name fails and leaves the registry unchanged when
\* name is the super user's identity or already present, and otherwise
\* appends name at the end.
AddOutcomes == {"added", "empty", "reserved", "duplicate"}

C6_AddUserAsClaimed ==
    [][(last'.op = "manage_users" /\ last'.status \in AddOutcomes) =>
           IF last'.space = SUPER_USER \/ in_list(last'.space, users_list)
           THEN users_list' = users_list
           ELSE users_list' = Append(users_list, last'.space)]_vars

\* C6, amended: adding name (the submitted username with surrounding
\* whitespace stripped) fails and leaves the registry unchanged when name is
\* empty, is the super user's identity or is already present, and otherwise
\* appends name at the end; the registry never holds the super user's
\* identity and never holds a username twice.
RegistryWellFormed ==
    /\ ~in_list(SUPER_USER, users_list)
    /\ \A i, j \in 1..Len(users_list) : users_list[i] = users_list[j] => i = j

C6_AddUser ==
    /\ []RegistryWellFormed
    /\ [][(last'.op = "manage_users" /\ last'.status \in AddOutcomes) =>
              IF \/ last'.space = <<>>
                 \/ last'.space = SUPER_USER
                 \/ in_list(last'.space, users_list)
              THEN users_list' = users_list /\ last'.status # "added"
              ELSE users_list' = Append(users_list, last'.space)
                       /\ last'.status = "added"]_vars

C6_Witness ==
    /\ last.op = "manage_users"
    /\ last.status = "added"
    /\ Len(users_list) = 2
    /\ users_list[2] = last.space

\* C7: after a successful removal of a registered user u, u is not in the
\* registry and list_pages(u) is empty, whatever u's space held; removing a
\* name that is not in the registry reports not-found and leaves the
\* registry and the pages of every space unchanged.
C7_RemoveUser ==
    [][last'.op = "manage_users" =>
          /\ last'.status = "removed" =>
                 /\ in_list(last'.space, users_list)
                 /\ ~in_list(last'.space, users_list')
                 /\ list_pages(dirs', files', last'.space) = <<>>
          /\ last'.status = "not_found" =>
                 /\ ~in_list(last'.space, users_list)
                 /\ users_list' = users_list
                 /\ users_file' = users_file
                 /\ files' = files
                 /\ \A s \in KnownNames :
                        list_pages(dirs', files', s) = list_pages(dirs, files, s)]_vars

C7_Witness ==
    /\ last.op = "manage_users"
    /\ last.status = "removed"
    /\ last.wiped > 0

\* C8: load_page right after save_page(space, name, content) returns exactly
\* content, whatever was there before; load_page of a page that is not
\* stored returns None.
C8_SaveLoadRoundTrip ==
    /\ last.op = "save_page" =>
           load_page(files, last.space, last.page) = last.content
    /\ (last.op = "load_page" /\ page_path(last.space, last.page) \notin DOMAIN files)
           => last.ret = None

\* C9: delete_page returns true exactly when the page existed, and the page
\* is absent afterwards; for a missing page it returns false and every page
\* of every space stays as it was.
C9_DeletePage ==
    [][last'.op = "delete_page" =>
          LET path == page_path(last'.space, last'.page)
          IN  /\ last'.ret = (path \in DOMAIN files)
              /\ path \notin DOMAIN files'
              /\ DOMAIN files' = DOMAIN files \ {path}
              /\ \A q \in DOMAIN files' : files'[q] = files[q]
              /\ (path \notin DOMAIN files) => files' = files]_vars

C9_Witness ==
    /\ last.op = "delete_page"
    /\ last.ret = FALSE
    /\ DOMAIN files # {}

\* C10: every page in the Space Store has a page_name that is non-empty and
\* has no "/", no "\" and no whitespace.
C10_StoredPageNamesValid ==
    \A p \in DOMAIN files : valid_page_name(page_name_of(p))

\* C11 as claimed: after every completed add or remove request, accepted
\* or rejected, users.json holds exactly the in-memory list.
AdminRejected == {"empty", "reserved", "duplicate", "not_found"}
AdminAccepted == {"added", "removed"}

C11_RegistryPersistedAsClaimed ==
    (last.op = "manage_users" /\ last.status \in AdminAccepted \cup AdminRejected)
        => users_file = users_list

\* C11: after every accepted add or remove request users.json holds exactly
\* the in-memory list; a rejected one leaves both as they were, so they
\* agree after it if they agreed before it; no other request changes the
\* in-memory list.
C11_RegistryPersisted ==
    [][ /\ (last'.op = "manage_users" /\ last'.status \in AdminAccepted)
              => users_file' = users_list'
        /\ (last'.op = "manage_users" /\ last'.status \in AdminRejected)
              => UNCHANGED <<users_list, users_file>>
        /\ users_file = users_list => users_file' = users_list'
        /\ users_list' # users_list
              => (last'.op = "manage_users" /\ last'.status \in AdminAccepted) ]_vars

\* A removal that leaves somebody registered has been written to users.json.
C11_Witness ==
    /\ last.op = "manage_users" /\ last.status = "removed"
    /\ users_list # <<>>
    /\ users_file = users_list

\* The part of a file name after its last ".", lower-cased; None without "."
extension(filename) ==
    IF ~has_char(filename, ".") THEN None
    ELSE LET dots == {k \in 1..Len(filename) : filename[k] = "."}
             i == CHOOSE k \in dots : \A j \in dots : j <= k
         IN  lower(SubSeq(filename, i + 1, Len(filename)))

Removals == {r \in Slots : inflight[r].action = "remove"}

\* C13: while a removal of u is in progress, whenever u is missing from the
\* in-memory registry or from users.json, u's space directory and its
\* pages are already gone; this holds after each statement, so also if
\* the request stops there.
C13_SpaceDeletedFirst ==
    \A r \in Removals :
        LET u == inflight[r].username
        IN  (~in_list(u, users_list) \/ ~in_list(u, users_file))
                => (user_dir(u) \notin dirs /\ DOMAIN space_files(files, u) = {})

\* A removal stopped between users_list.remove and save_users
C13_Witness ==
    \E r \in Removals :
        /\ ~in_list(inflight[r].username, users_list)
        /\ in_list(inflight[r].username, users_file)
        /\ user_dir(inflight[r].username) \notin dirs

C15_LoginLogout ==
    [][ /\ last'.op = "login"
              => \A u \in UserNameInputs :
                     login(last'.client, "POST", u, None)
                     => IF strip(u) # <<>>
                           /\ (strip(u) = SUPER_USER \/ strip(u) \in Registered)
                        THEN /\ session' = [session EXCEPT ![last'.client] = strip(u)]
                             /\ last'.status = "logged_in"
                        ELSE /\ session' = session
                             /\ last'.status = "refused"
        /\ last'.op = "logout"
              => session' = [session EXCEPT ![last'.client] = None]
        /\ session' # session => last'.op \in {"login", "logout"}
        /\ (last'.op \in PageRequests \cup {"manage_users"} /\ session[last'.client] = None)
              => /\ last'.status = "login"
                 /\ UNCHANGED <<users_list, users_file, dirs, files, images>> ]_vars

\* A logged-in client tried to log in under an unregistered name while
\* somebody else is registered, and kept its identity.
C15_Witness ==
    /\ last.op = "login" /\ last.status = "refused"
    /\ session[last.client] # None
    /\ users_list # <<>>

\* C16: every space that holds at least one page belongs to the super
\* user or to a username that is registered now; so once a user has been
\* removed, no request, not even one of a session that logged in as that
\* user before the removal, creates a page in the user's space unless the
\* user is added again.
C16_PagesOnlyInOwnedSpaces ==
    \A p \in DOMAIN files :
        \E s \in {SUPER_USER} \cup Registered : is_prefix(user_dir(s), p)

\* C17: a successful removal of u changes only u's own space: the space of
\* the super user and of every other user who stays registered keeps its
\* directory and its pages, and the super user's space still exists.
C17_RemoveUserFrame ==
    [][ (last'.op = "manage_users" /\ last'.status = "removed")
        => /\ user_dir(SUPER_USER) \in dirs'
           /\ \A s \in ({SUPER_USER} \cup Registered) \ {last'.space} :
                  /\ space_files(files', s) = space_files(files, s)
                  /\ user_dir(s) \in dirs => user_dir(s) \in dirs' ]_vars

NoDuplicates(users) ==
    \A i, j \in 1..Len(users) : users[i] = users[j] => i = j

AllCompleted == \A r \in Slots : inflight[r] = Idle

\* C18: under any interleaving of the statements of concurrently handled
\* requests to /admin/users, the registry never holds a username twice, no
\* request ends in an unhandled exception, and once all requests have
\* completed users.json equals the in-memory registry.
C18_ConcurrentAdmin ==
    /\ NoDuplicates(users_list)
    /\ ~(last.op = "manage_users" /\ last.status = "ValueError")
    /\ AllCompleted => users_file = users_list

====
